---- MODULE Spec2Model ----
(***************************************************************************)
(* Model of the tp1 knowledge-graph recommendation pipeline:               *)
(*   load dataset -> build_graph -> RecommendationEngine.__init__ ->       *)
(*   recommend_for_customer / strategy_breakdown requests.                 *)
(*                                                                         *)
(* Python floats are modelled as exact rationals <<numerator, denominator>> *)
(* in lowest terms (denominator > 0); rounding error is not modelled.      *)
(* Python dicts are functions whose DOMAIN is the key set.                 *)
(***************************************************************************)
EXTENDS Integers, Sequences, FiniteSets, TLC

VARIABLES dataset, graph, engine, pc, result, pagerank_run, calls

vars == <<dataset, graph, engine, pc, result, pagerank_run, calls>>

(***************************************************************************)
(* Bounds of the model.                                                    *)
(***************************************************************************)
MaxRecords == 2

MaxItems == 2

MaxTopN == 2

MaxIterations == 2

MaxWorkers == 2

MaxRetries == 3

(***************************************************************************)
(* Exact rational arithmetic standing in for float arithmetic.             *)
(***************************************************************************)
Abs(x) == IF x < 0 THEN -x ELSE x

Min(a, b) == IF a <= b THEN a ELSE b

RECURSIVE GCD(_, _)
GCD(a, b) == IF b = 0 THEN a ELSE GCD(b, a % b)

Rat(n, d) ==
    LET g == GCD(Abs(n), Abs(d))
        s == IF d < 0 THEN -1 ELSE 1
    IN  <<(s * n) \div g, (s * d) \div g>>

Zero == <<0, 1>>

One == <<1, 1>>

RAdd(x, y) ==
    LET g == GCD(x[2], y[2])
        l == (x[2] \div g) * y[2]
    IN  Rat(x[1] * (l \div x[2]) + y[1] * (l \div y[2]), l)

RNeg(x) == <<-x[1], x[2]>>

RSub(x, y) == RAdd(x, RNeg(y))

RMul(x, y) ==
    LET a == Rat(x[1], y[2])
        b == Rat(y[1], x[2])
    IN  <<a[1] * b[1], a[2] * b[2]>>

RDiv(x, y) == RMul(x, IF y[1] < 0 THEN <<-y[2], -y[1]>> ELSE <<y[2], y[1]>>)

RAbs(x) == <<Abs(x[1]), x[2]>>

\* a/b < c/d for b, d > 0, by integer parts and then the inverted remainders
RECURSIVE FracLt(_, _, _, _)
FracLt(a, b, c, d) ==
    IF a \div b # c \div d THEN a \div b < c \div d
    ELSE IF c % d = 0 THEN FALSE
    ELSE IF a % b = 0 THEN TRUE
    ELSE FracLt(d, c % d, b, a % b)

RLt(x, y) == FracLt(x[1], x[2], y[1], y[2])

RPos(x) == x[1] > 0

RECURSIVE RSumOver(_, _)
RSumOver(f, S) ==
    IF S = {} THEN Zero
    ELSE LET k == CHOOSE k \in S : TRUE
         IN  RAdd(f[k], RSumOver(f, S \ {k}))

\* sum(d.values()) of a dict of floats
RSum(f) == RSumOver(f, DOMAIN f)

RECURSIVE ISumOver(_, _)
ISumOver(f, S) ==
    IF S = {} THEN 0
    ELSE LET k == CHOOSE k \in S : TRUE
         IN  f[k] + ISumOver(f, S \ {k})

\* sum(counter.values()) of a Counter of ints
ISum(f) == ISumOver(f, DOMAIN f)

EmptyDict == [k \in {} |-> 0]

(***************************************************************************)
(* Identifiers.  Product identifiers compare lexicographically (the sort   *)
(* keys of _combine_strategies and _top_items); IdOrder gives that order.  *)
(***************************************************************************)
ProductIds == {"P1", "P2", "P3"}

RefProductIds == {"P1", "P2", "P3", "P4"}

IdOrder == [p \in RefProductIds |-> CASE p = "P1" -> 1 [] p = "P2" -> 2
                                      [] p = "P3" -> 3 [] p = "P4" -> 4]

CustomerIds == {"C1", "C2"}

UnknownCustomer == "C999"

EVENT_WEIGHTS == [view |-> <<1, 2>>, click |-> <<1, 1>>, add_to_cart |-> <<2, 1>>]

EventTypes == {"view", "wishlist"}

\* mutant: the three strategies weigh the same
STRATEGY_WEIGHTS_Equal ==
    [co_occurrence |-> <<1, 3>>, similarity |-> <<1, 3>>,
     personalized_pagerank |-> <<1, 3>>]

STRATEGY_WEIGHTS ==
    [co_occurrence |-> <<2, 5>>, similarity |-> <<3, 10>>,
     personalized_pagerank |-> <<3, 10>>]

(***************************************************************************)
(* Datasets.  Only the fields the pipeline reads are kept: the key sets of *)
(* customers and products, the orders (customer and item list, in dict     *)
(* order) and the events (in list order).                                  *)
(***************************************************************************)
SeqsUpTo(S, n) == UNION {[1..k -> S] : k \in 0..n}

Order(c, items) == [customer_id |-> c, items |-> items]

Event(c, p, t) == [customer_id |-> c, product_id |-> p, event_type |-> t]

load_dataset ==
    [customers |-> {"C1", "C2", "C3"},
     products  |-> {"P1", "P2", "P3", "P4"},
     orders    |-> <<Order("C1", <<"P1", "P2">>),
                     Order("C2", <<"P3">>),
                     Order("C1", <<"P4", "P2">>)>>,
     events    |-> <<Event("C1", "P3", "view"),
                     Event("C1", "P3", "click"),
                     Event("C3", "P1", "view"),
                     Event("C2", "P2", "view"),
                     Event("C2", "P4", "add_to_cart")>>]

(***************************************************************************)
(* build_graph                                                             *)
(***************************************************************************)
\* set.add on a defaultdict(set) entry
AddIncidence(m, k, v) ==
    IF k \in DOMAIN m THEN [m EXCEPT ![k] = @ \cup {v}] ELSE m @@ (k :> {v})

\* product_cooccurrence[a][b] += 1 on a defaultdict(Counter)
IncCooccurrence(cooc, a, b) ==
    IF a \in DOMAIN cooc
    THEN [cooc EXCEPT ![a] = IF b \in DOMAIN @ THEN [@ EXCEPT ![b] = @ + 1]
                                                 ELSE @ @@ (b :> 1)]
    ELSE cooc @@ (a :> (b :> 1))

\* itertools.combinations(items, 2): position pairs i < j, in order
Combinations2(items) ==
    LET n == Len(items)
        Row(i) == [k \in 1..(n - i) |-> <<items[i], items[i + k]>>]
        RECURSIVE Rows(_)
        Rows(i) == IF i >= n THEN <<>> ELSE Row(i) \o Rows(i + 1)
    IN  Rows(1)

\* mutant: a pair is counted on its left product only
RECURSIVE AddPairs_OneDirection(_, _)
AddPairs_OneDirection(cooc, pairs) ==
    IF pairs = <<>> THEN cooc
    ELSE AddPairs_OneDirection(IncCooccurrence(cooc, Head(pairs)[1], Head(pairs)[2]),
                               Tail(pairs))

RECURSIVE AddPairs(_, _)
AddPairs(cooc, pairs) ==
    IF pairs = <<>> THEN cooc
    ELSE LET left  == Head(pairs)[1]
             right == Head(pairs)[2]
         IN  AddPairs(IncCooccurrence(IncCooccurrence(cooc, left, right), right, left),
                      Tail(pairs))

RECURSIVE AddOrderItems(_, _, _)
AddOrderItems(g, c, items) ==
    IF items = <<>> THEN g
    ELSE AddOrderItems(
            [g EXCEPT !.product_customers = AddIncidence(@, Head(items), c),
                      !.customer_products = AddIncidence(@, c, Head(items))],
            c, Tail(items))

\* one pass of the "for order in dataset.orders.values()" loop
AddOrder(g, order) ==
    LET g1 == AddOrderItems(g, order.customer_id, order.items)
    IN  [g1 EXCEPT !.product_cooccurrence = AddPairs(@, Combinations2(order.items))]

EventWeight(t) == IF t \in DOMAIN EVENT_WEIGHTS THEN EVENT_WEIGHTS[t] ELSE Zero

\* mutant: an event records its weight and the product's customers only
AddEvent_NoCustomerProducts(g, event) ==
    LET key == <<event.customer_id, event.product_id>>
        w   == EventWeight(event.event_type)
    IN  [g EXCEPT
          !.product_customers = AddIncidence(@, event.product_id, event.customer_id),
          !.event_weights = IF key \in DOMAIN @ THEN [@ EXCEPT ![key] = RAdd(@, w)]
                                                ELSE @ @@ (key :> w)]

\* mutant: the weight of an event replaces the weight recorded so far
AddEvent_Overwrite(g, event) ==
    LET key == <<event.customer_id, event.product_id>>
        w   == EventWeight(event.event_type)
    IN  [g EXCEPT
          !.product_customers = AddIncidence(@, event.product_id, event.customer_id),
          !.customer_products = AddIncidence(@, event.customer_id, event.product_id),
          !.event_weights = IF key \in DOMAIN @ THEN [@ EXCEPT ![key] = w]
                                                ELSE @ @@ (key :> w)]

\* one pass of the "for event in dataset.events" loop
AddEvent(g, event) ==
    LET key == <<event.customer_id, event.product_id>>
        w   == EventWeight(event.event_type)
    IN  [g EXCEPT
          !.product_customers = AddIncidence(@, event.product_id, event.customer_id),
          !.customer_products = AddIncidence(@, event.customer_id, event.product_id),
          !.event_weights = IF key \in DOMAIN @ THEN [@ EXCEPT ![key] = RAdd(@, w)]
                                                ELSE @ @@ (key :> w)]

RECURSIVE FoldOrders(_, _)
FoldOrders(g, orders) ==
    IF orders = <<>> THEN g ELSE FoldOrders(AddOrder(g, Head(orders)), Tail(orders))

RECURSIVE FoldEvents(_, _)
FoldEvents(g, events) ==
    IF events = <<>> THEN g ELSE FoldEvents(AddEvent(g, Head(events)), Tail(events))

_initial_adjacency(product_ids) == [pid \in product_ids |-> EmptyDict]

\* mutant: a row is divided by its number of neighbours, not by its total count
NormalizedRows_ByNeighbours(cooc) ==
    LET keys == {p \in DOMAIN cooc : ISum(cooc[p]) # 0}
    IN  [p \in keys |->
            [n \in DOMAIN cooc[p] |-> Rat(cooc[p][n], Cardinality(DOMAIN cooc[p]))]]

\* the adjacency loop: rows of products with a nonzero co-occurrence total
NormalizedRows(cooc) ==
    LET keys == {p \in DOMAIN cooc : ISum(cooc[p]) # 0}
    IN  [p \in keys |-> [n \in DOMAIN cooc[p] |-> Rat(cooc[p][n], ISum(cooc[p]))]]

\* mutant: product_adjacency has a row for the products of dataset.products only
build_graph_KnownProductsOnly(ds) ==
    LET empty == [product_cooccurrence |-> EmptyDict,
                  product_customers    |-> EmptyDict,
                  customer_products    |-> EmptyDict,
                  event_weights        |-> EmptyDict]
        g == FoldEvents(FoldOrders(empty, ds.orders), ds.events)
        rows == NormalizedRows(g.product_cooccurrence)
    IN  [dataset              |-> ds,
         product_cooccurrence |-> g.product_cooccurrence,
         product_customers    |-> g.product_customers,
         customer_products    |-> g.customer_products,
         event_weights        |-> g.event_weights,
         product_adjacency    |-> [p \in ds.products |->
                                     IF p \in DOMAIN rows THEN rows[p] ELSE EmptyDict]]

build_graph(ds) ==
    LET empty == [product_cooccurrence |-> EmptyDict,
                  product_customers    |-> EmptyDict,
                  customer_products    |-> EmptyDict,
                  event_weights        |-> EmptyDict]
        g == FoldEvents(FoldOrders(empty, ds.orders), ds.events)
    IN  [dataset              |-> ds,
         product_cooccurrence |-> g.product_cooccurrence,
         product_customers    |-> g.product_customers,
         customer_products    |-> g.customer_products,
         event_weights        |-> g.event_weights,
         product_adjacency    |-> NormalizedRows(g.product_cooccurrence)
                                    @@ _initial_adjacency(ds.products)]

(***************************************************************************)
(* RecommendationEngine.  `self` is the engine object: the graph it holds, *)
(* damping, tolerance, max_iterations, _product_ids and _global_pagerank.  *)
(***************************************************************************)
\* dict.get(k, default)
Get(d, k, default) == IF k \in DOMAIN d THEN d[k] ELSE default

Last(s) == s[Len(s)]

\* mutant: the list is not truncated
Take_All(s, n) == s

\* s[:n] for n >= 0
Take(s, n) == SubSeq(s, 1, Min(n, Len(s)))

_uniform_personalization(self) ==
    IF self._product_ids = {} THEN EmptyDict
    ELSE [product_id \in self._product_ids |-> Rat(1, Cardinality(self._product_ids))]

\* mutant: the given vector is used as it is
_normalize_personalization_AsGiven(self, values) ==
    [product_id \in self._product_ids |-> Get(values, product_id, Zero)]

_normalize_personalization(self, values) ==
    LET total == RSumOver([p \in self._product_ids |-> Get(values, p, Zero)],
                          self._product_ids)
    IN  IF total = Zero THEN _uniform_personalization(self)
        ELSE [product_id \in self._product_ids |->
                RDiv(Get(values, product_id, Zero), total)]

\* mutant: no product is taken for a sink
IsSink_Never(self, product_id) == FALSE

\* "not self.graph.product_adjacency.get(product_id)": no row, or an empty row
IsSink(self, product_id) ==
    Get(self.graph.product_adjacency, product_id, EmptyDict) = EmptyDict

\* sink_rank of one iteration
SinkRank(self, ranks) ==
    RSumOver(ranks, {p \in self._product_ids : IsSink(self, p)})

\* mutant: the rank of the sinks is dropped instead of redistributed
Leak_Dropped(self, ranks) == Zero

\* leak = damping * sink_rank / len(_product_ids)
Leak(self, ranks) ==
    RDiv(RMul(self.damping, SinkRank(self, ranks)),
         <<Cardinality(self._product_ids), 1>>)

\* what the propagation loop adds to new_ranks[target]: every product with a
\* nonempty row pushes damping * ranks[product] * weight to each neighbour
Propagated(self, ranks, target) ==
    LET adj == self.graph.product_adjacency
        sources == {p \in self._product_ids : target \in DOMAIN Get(adj, p, EmptyDict)}
    IN  RSumOver([p \in sources |-> RMul(RMul(self.damping, ranks[p]), adj[p][target])],
                 sources)

\* the body of the "for _ in range(self.max_iterations)" loop: new_ranks
PagerankIteration(self, ranks, personalization) ==
    LET leak == Leak(self, ranks)
    IN  [product_id \in self._product_ids |->
            RAdd(RAdd(RMul(RSub(One, self.damping),
                           Get(personalization, product_id, Zero)),
                      Propagated(self, ranks, product_id)),
                 IF leak # Zero THEN leak ELSE Zero)]

\* delta = sum(abs(new_ranks[pid] - ranks[pid]))
Delta(self, new_ranks, ranks) ==
    RSumOver([pid \in self._product_ids |-> RAbs(RSub(new_ranks[pid], ranks[pid]))],
             self._product_ids)

\* mutant: the loop ignores the tolerance and always runs max_iterations times
RECURSIVE PagerankLoop_NoEarlyStop(_, _, _, _)
PagerankLoop_NoEarlyStop(self, personalization, trace, done) ==
    IF done >= self.max_iterations THEN trace
    ELSE PagerankLoop_NoEarlyStop(
            self, personalization,
            Append(trace, PagerankIteration(self, Last(trace), personalization)),
            done + 1)

\* The rank vectors of one solver run: the initial vector, then the vector
\* after each iteration performed.
RECURSIVE PagerankLoop(_, _, _, _)
PagerankLoop(self, personalization, trace, done) ==
    IF done >= self.max_iterations THEN trace
    ELSE LET ranks     == Last(trace)
             new_ranks == PagerankIteration(self, ranks, personalization)
         IN  IF RLt(Delta(self, new_ranks, ranks), self.tolerance)
             THEN Append(trace, new_ranks)
             ELSE PagerankLoop(self, personalization, Append(trace, new_ranks), done + 1)

PagerankTrace(self, personalization) ==
    IF self._product_ids = {} THEN <<>>
    ELSE PagerankLoop(self, _normalize_personalization(self, personalization),
                      <<[product_id \in self._product_ids |->
                            Rat(1, Cardinality(self._product_ids))]>>, 0)

\* mutant: with no products the solver hands back the vector it was given
_run_pagerank_ReturnsGiven(self, personalization) ==
    IF self._product_ids = {} THEN personalization
    ELSE Last(PagerankTrace(self, personalization))

_run_pagerank(self, personalization) ==
    IF self._product_ids = {} THEN EmptyDict
    ELSE Last(PagerankTrace(self, personalization))

\* mutant: a customer is known when the graph has products for it
_ensure_known_customer_InGraph(self, customer_id) ==
    customer_id \in DOMAIN self.graph.customer_products


_ensure_known_customer(self, customer_id) ==
    customer_id \in self.graph.dataset.customers

_interacted_products(self, customer_id) ==
    {key[2] : key \in {k \in DOMAIN self.graph.event_weights :
                          k[1] = customer_id /\ RPos(self.graph.event_weights[k])}}

\* the inner loop of _co_occurrence_scores over one seed's Counter row
RECURSIVE CoOccurrenceRow(_, _, _, _)
CoOccurrenceRow(scores, row, todo, seeds) ==
    IF todo = {} THEN scores
    ELSE LET candidate == CHOOSE c \in todo : TRUE
             next == IF candidate \in seeds THEN scores
                     ELSE (candidate :> RAdd(Get(scores, candidate, Zero),
                                             <<row[candidate], 1>>)) @@ scores
         IN  CoOccurrenceRow(next, row, todo \ {candidate}, seeds)

RECURSIVE CoOccurrenceSeeds(_, _, _, _)
CoOccurrenceSeeds(self, scores, todo, seeds) ==
    IF todo = {} THEN scores
    ELSE LET seed == CHOOSE s \in todo : TRUE
             row  == Get(self.graph.product_cooccurrence, seed, EmptyDict)
         IN  CoOccurrenceSeeds(self, CoOccurrenceRow(scores, row, DOMAIN row, seeds),
                               todo \ {seed}, seeds)

\* mutant: the accumulated counts are averaged over the seeds
_co_occurrence_scores_Averaged(self, seeds) ==
    LET total == CoOccurrenceSeeds(self, EmptyDict, seeds, seeds)
    IN  [c \in DOMAIN total |-> RDiv(total[c], <<Cardinality(seeds), 1>>)]

_co_occurrence_scores(self, seeds) == CoOccurrenceSeeds(self, EmptyDict, seeds, seeds)

\* mutant: the shared customers are divided by the seed's customers alone
JaccardTerm_OverSeed(self, seed, candidate_customers) ==
    LET seed_customers == Get(self.graph.product_customers, seed, {})
        intersection   == seed_customers \cap candidate_customers
    IN  IF intersection = {} THEN Zero
        ELSE Rat(Cardinality(intersection), Cardinality(seed_customers))

\* what one seed adds to a candidate's accumulator in _similarity_scores
JaccardTerm(self, seed, candidate_customers) ==
    LET seed_customers == Get(self.graph.product_customers, seed, {})
        union          == seed_customers \cup candidate_customers
        intersection   == seed_customers \cap candidate_customers
    IN  IF seed_customers = {} /\ candidate_customers = {} THEN Zero
        ELSE IF union = {} THEN Zero
        ELSE IF intersection = {} THEN Zero
        ELSE Rat(Cardinality(intersection), Cardinality(union))

_similarity_scores(self, seeds) ==
    LET pc_ == self.graph.product_customers
        accumulator(candidate) ==
            RSumOver([seed \in seeds |-> JaccardTerm(self, seed, pc_[candidate])], seeds)
        keys == {candidate \in DOMAIN pc_ :
                    candidate \notin seeds /\ RPos(accumulator(candidate))}
    IN  [candidate \in keys |-> accumulator(candidate)]

\* the personalization dict _personalized_pagerank hands to the solver
SeedPersonalization(self, seeds) ==
    [product_id \in seeds |-> Rat(1, Cardinality(seeds))]
        @@ [product_id \in self._product_ids |-> Zero]

_personalized_pagerank(self, seeds) ==
    IF seeds = {} THEN self._global_pagerank
    ELSE _run_pagerank(self, SeedPersonalization(self, seeds))

RECURSIVE RMaxOver(_, _)
RMaxOver(f, S) ==
    LET k == CHOOSE k \in S : TRUE
    IN  IF S = {k} THEN f[k]
        ELSE LET m == RMaxOver(f, S \ {k}) IN IF RLt(m, f[k]) THEN f[k] ELSE m

\* mutant: the scores are divided by their sum
_normalize_scores_BySum(scores) ==
    IF DOMAIN scores = {} THEN EmptyDict
    ELSE IF RSum(scores) = Zero THEN [key \in DOMAIN scores |-> Zero]
    ELSE [key \in DOMAIN scores |-> RDiv(scores[key], RSum(scores))]

_normalize_scores(scores) ==
    IF DOMAIN scores = {} THEN EmptyDict
    ELSE LET max_value == RMaxOver(scores, DOMAIN scores)
         IN  IF max_value = Zero THEN [key \in DOMAIN scores |-> Zero]
             ELSE [key \in DOMAIN scores |-> RDiv(scores[key], max_value)]

\* mutant: equal scores are ordered by descending product id
RECURSIVE SortByScore_TiesDescending(_, _)
SortByScore_TiesDescending(scores, S) ==
    IF S = {} THEN <<>>
    ELSE LET first == CHOOSE p \in S : \A q \in S \ {p} :
                         \/ RLt(scores[q], scores[p])
                         \/ scores[q] = scores[p] /\ IdOrder[p] > IdOrder[q]
         IN  <<first>> \o SortByScore_TiesDescending(scores, S \ {first})

\* sort(key=(-score, product_id)) of the keys S of a score map
RECURSIVE SortByScore(_, _)
SortByScore(scores, S) ==
    IF S = {} THEN <<>>
    ELSE LET first == CHOOSE p \in S : \A q \in S \ {p} :
                         \/ RLt(scores[q], scores[p])
                         \/ scores[q] = scores[p] /\ IdOrder[p] < IdOrder[q]
         IN  <<first>> \o SortByScore(scores, S \ {first})

\* mutant: the exclusion set is ignored
_combine_strategies_NoExclusion(strategies, exclude) ==
    LET Kept(name) == {p \in DOMAIN strategies[name] : RPos(strategies[name][p])}
        names == {n \in DOMAIN strategies :
                     Get(STRATEGY_WEIGHTS, n, Zero) # Zero}
        combined == [product_id \in UNION {Kept(n) : n \in names} |->
                        [name \in {n \in names : product_id \in Kept(n)} |->
                            RMul(strategies[name][product_id], STRATEGY_WEIGHTS[name])]]
        score == [product_id \in DOMAIN combined |-> RSum(combined[product_id])]
        ranked == SortByScore(score, DOMAIN combined)
    IN  [i \in 1..Len(ranked) |->
            [product_id    |-> ranked[i],
             score         |-> score[ranked[i]],
             contributions |-> combined[ranked[i]]]]


_combine_strategies(strategies, exclude) ==
    LET Kept(name) == {p \in DOMAIN strategies[name] :
                          ~(p \in exclude \/ ~RPos(strategies[name][p]))}
        names == {n \in DOMAIN strategies :
                     Get(STRATEGY_WEIGHTS, n, Zero) # Zero}
        combined == [product_id \in UNION {Kept(n) : n \in names} |->
                        [name \in {n \in names : product_id \in Kept(n)} |->
                            RMul(strategies[name][product_id], STRATEGY_WEIGHTS[name])]]
        score == [product_id \in DOMAIN combined |-> RSum(combined[product_id])]
        ranked == SortByScore(score, DOMAIN combined)
    IN  [i \in 1..Len(ranked) |->
            [product_id    |-> ranked[i],
             score         |-> score[ranked[i]],
             contributions |-> combined[ranked[i]]]]

\* mutant: the items are ordered by product id alone
_top_items_ById(scores, top_n, exclude) ==
    LET ranked == SortByScore([p \in DOMAIN scores |-> Zero],
                              {p \in DOMAIN scores : p \notin exclude})
    IN  Take([i \in 1..Len(ranked) |-> <<ranked[i], scores[ranked[i]]>>], top_n)


_top_items(scores, top_n, exclude) ==
    LET ranked == SortByScore(scores, {p \in DOMAIN scores : p \notin exclude})
    IN  Take([i \in 1..Len(ranked) |-> <<ranked[i], scores[ranked[i]]>>], top_n)

_fallback_top_pagerank(self, top_n) ==
    LET top_items == _top_items(self._global_pagerank, top_n, {})
    IN  [i \in 1..Len(top_items) |->
            [product_id    |-> top_items[i][1],
             score         |-> top_items[i][2],
             contributions |-> [name \in {"global_pagerank"} |-> top_items[i][2]]]]

\* the local variables both request methods compute first
Purchased(self, customer_id) == Get(self.graph.customer_products, customer_id, {})

Seeds(self, customer_id) ==
    IF Purchased(self, customer_id) # {} THEN Purchased(self, customer_id)
    ELSE _interacted_products(self, customer_id)

\* mutant: only the products with positive event weight are excluded
Exclude_InteractedOnly(self, customer_id) == _interacted_products(self, customer_id)


Exclude(self, customer_id) ==
    Purchased(self, customer_id) \cup _interacted_products(self, customer_id)

recommend_for_customer(self, customer_id, top_n) ==
    IF ~_ensure_known_customer(self, customer_id) THEN [outcome |-> "ValueError"]
    ELSE LET seeds == Seeds(self, customer_id)
         IN  IF seeds = {}
             THEN [outcome |-> "ok", value |-> _fallback_top_pagerank(self, top_n)]
             ELSE LET strategies ==
                          [co_occurrence |->
                               _normalize_scores(_co_occurrence_scores(self, seeds)),
                           similarity |->
                               _normalize_scores(_similarity_scores(self, seeds)),
                           personalized_pagerank |->
                               _normalize_scores(_personalized_pagerank(self, seeds))]
                      combined == _combine_strategies(strategies,
                                                      Exclude(self, customer_id))
                  IN  [outcome |-> "ok", value |-> Take(combined, top_n)]

\* mutant: the breakdown lists hold normalized scores
strategy_breakdown_Normalized(self, customer_id, top_n) ==
    IF ~_ensure_known_customer(self, customer_id) THEN [outcome |-> "ValueError"]
    ELSE LET seeds == Seeds(self, customer_id)
         IN  IF seeds = {}
             THEN [outcome |-> "ok",
                   value |-> [name \in {"global_pagerank"} |->
                                 _top_items(self._global_pagerank, top_n, {})]]
             ELSE LET raw == [co_occurrence |-> _co_occurrence_scores(self, seeds),
                              similarity |-> _similarity_scores(self, seeds),
                              personalized_pagerank |->
                                  _personalized_pagerank(self, seeds)]
                  IN  [outcome |-> "ok",
                       value |-> [name \in DOMAIN raw |->
                                     _top_items(_normalize_scores(raw[name]), top_n,
                                                Exclude(self, customer_id))]]

strategy_breakdown(self, customer_id, top_n) ==
    IF ~_ensure_known_customer(self, customer_id) THEN [outcome |-> "ValueError"]
    ELSE LET seeds == Seeds(self, customer_id)
         IN  IF seeds = {}
             THEN [outcome |-> "ok",
                   value |-> [name \in {"global_pagerank"} |->
                                 _top_items(self._global_pagerank, top_n, {})]]
             ELSE LET raw == [co_occurrence |-> _co_occurrence_scores(self, seeds),
                              similarity |-> _similarity_scores(self, seeds),
                              personalized_pagerank |->
                                  _personalized_pagerank(self, seeds)]
                  IN  [outcome |-> "ok",
                       value |-> [name \in DOMAIN raw |->
                                     _top_items(raw[name], top_n,
                                                Exclude(self, customer_id))]]

(***************************************************************************)
(* The pipeline as a state machine (main.py): DATASET is loaded, GRAPH is  *)
(* built from it, ENGINE is constructed on the graph, then requests are    *)
(* served one at a time.  `result` is the response of the request just     *)
(* served; `pagerank_run` records the call of _run_pagerank made by the    *)
(* last operation (None if it made none): the personalization it was given *)
(* and the rank vector before and after each iteration.  `calls` holds the *)
(* local variables of the requests that worker threads run side by side.   *)
(***************************************************************************)
None == [none |-> TRUE]

ProductSets == {{}, {"P1", "P2"}, {"P1", "P2", "P3"}}

OrderChoices ==
    {Order(c, items) : c \in CustomerIds,
                       items \in SeqsUpTo(ProductIds, MaxItems) \ {<<>>}}

EventChoices ==
    {Event(c, p, t) : c \in CustomerIds, p \in ProductIds, t \in EventTypes}

\* the calls in flight on the engine, one per worker thread: none is running
Workers == 1..MaxWorkers

Idle == [pc |-> "idle"]

NoCalls == [w \in Workers |-> Idle]

\* the numbers of orders and of events of a dataset: at most MaxRecords in total
RecordCounts == {m \in (0..MaxRecords) \X (0..MaxRecords) : m[1] + m[2] <= MaxRecords}

\* the constructor's defaults: damping=0.85, tolerance=1e-6
DefaultDamping == <<17, 20>>

DefaultTolerance == <<1, 1000000>>

Init ==
    /\ \/ dataset = load_dataset
       \/ \E n \in RecordCounts :
             \E ps \in ProductSets, os \in [1..n[1] -> OrderChoices],
                es \in [1..n[2] -> EventChoices] :
                dataset = [customers |-> CustomerIds, products |-> ps,
                           orders |-> os, events |-> es]
    /\ graph = None
    /\ engine = None
    /\ pc = "loaded"
    /\ result = None
    /\ pagerank_run = None
    /\ calls = NoCalls

\* GRAPH = build_graph(DATASET)
BuildGraph ==
    /\ pc = "loaded"
    /\ graph' = build_graph(dataset)
    /\ pc' = "built"
    /\ UNCHANGED <<dataset, engine, result, pagerank_run, calls>>

\* the record of a solver call
PagerankRun(self, personalization) ==
    [personalization |-> personalization,
     trace           |-> PagerankTrace(self, personalization)]

\* RecommendationEngine(graph, max_iterations=...): the constructed object
RecommendationEngine(g, max_iterations) ==
    LET self0 == [graph          |-> g,
                  damping        |-> DefaultDamping,
                  tolerance      |-> DefaultTolerance,
                  max_iterations |-> max_iterations,
                  _product_ids   |-> DOMAIN g.product_adjacency]
    IN  [_global_pagerank |-> _run_pagerank(self0, _uniform_personalization(self0))]
            @@ self0

\* ENGINE = RecommendationEngine(GRAPH, max_iterations=...)
EngineInit ==
    /\ pc = "built"
    /\ \E max_iterations \in 0..MaxIterations :
          /\ engine' = RecommendationEngine(graph, max_iterations)
          /\ pagerank_run' = PagerankRun(engine', _uniform_personalization(engine'))
    /\ pc' = "ready"
    /\ UNCHANGED <<dataset, graph, result, calls>>

\* whether a request reaches the solver, and the record of that call
RequestPagerankRun(self, customer_id) ==
    IF _ensure_known_customer(self, customer_id) /\ Seeds(self, customer_id) # {}
    THEN PagerankRun(self, SeedPersonalization(self, Seeds(self, customer_id)))
    ELSE None

\* mutant: a request caches the rank vector of its own solver call on the engine
RecommendForCustomer_CachesRanks ==
    /\ pc = "ready"
    /\ result = None
    /\ \E customer_id \in dataset.customers \cup {UnknownCustomer}, top_n \in 1..MaxTopN :
          /\ result' = [op          |-> "recommend_for_customer",
                        customer_id |-> customer_id,
                        top_n       |-> top_n,
                        response    |-> recommend_for_customer(engine, customer_id, top_n)]
          /\ pagerank_run' = RequestPagerankRun(engine, customer_id)
          /\ engine' = IF pagerank_run' = None THEN engine
                       ELSE [engine EXCEPT !._global_pagerank =
                               _run_pagerank(engine, pagerank_run'.personalization)]
    /\ UNCHANGED <<dataset, graph, pc, calls>>

RecommendForCustomer ==
    /\ pc = "ready"
    /\ result = None
    /\ \E customer_id \in dataset.customers \cup {UnknownCustomer}, top_n \in 1..MaxTopN :
          /\ result' = [op          |-> "recommend_for_customer",
                        customer_id |-> customer_id,
                        top_n       |-> top_n,
                        response    |-> recommend_for_customer(engine, customer_id, top_n)]
          /\ pagerank_run' = RequestPagerankRun(engine, customer_id)
    /\ UNCHANGED <<dataset, graph, engine, pc, calls>>

StrategyBreakdown ==
    /\ pc = "ready"
    /\ result = None
    /\ \E customer_id \in dataset.customers \cup {UnknownCustomer}, top_n \in 1..MaxTopN :
          /\ result' = [op          |-> "strategy_breakdown",
                        customer_id |-> customer_id,
                        top_n       |-> top_n,
                        response    |-> strategy_breakdown(engine, customer_id, top_n)]
          /\ pagerank_run' = RequestPagerankRun(engine, customer_id)
    /\ UNCHANGED <<dataset, graph, engine, pc, calls>>

\* the caller takes the response; the engine is idle until the next request
ReturnResponse ==
    /\ pc = "ready"
    /\ result # None
    /\ result' = None
    /\ pagerank_run' = None
    /\ UNCHANGED <<dataset, graph, engine, pc, calls>>

Next ==
    \/ BuildGraph
    \/ EngineInit
    \/ RecommendForCustomer
    \/ StrategyBreakdown
    \/ ReturnResponse

Spec == Init /\ [][Next]_vars

\* graph construction alone, for the claims about GraphData
GraphSpec == Init /\ [][BuildGraph]_vars

(***************************************************************************)
(* Requests served side by side.  The two endpoints are plain functions,   *)
(* which the server runs on worker threads against the one engine; a       *)
(* thread can be preempted anywhere, so a call is a sequence of steps over *)
(* its own local variables, kept in calls[w]: the lines up to the seed     *)
(* decision, the co-occurrence and similarity scorers with the set-up of   *)
(* the solver, one step per solver iteration, and the fusion.              *)
(***************************************************************************)
Operations == {"recommend_for_customer", "strategy_breakdown"}

Done(op, customer_id, top_n, response) ==
    [pc |-> "done", op |-> op, customer_id |-> customer_id, top_n |-> top_n,
     response |-> response]

\* lines 47-52 and 73-80: the known-customer test, purchased, interacted, seeds
\* and the cold-start return
CallStart(w) ==
    /\ pc = "ready"
    /\ calls[w] = Idle
    /\ \E op \in Operations, customer_id \in dataset.customers \cup {UnknownCustomer},
          top_n \in 1..MaxTopN :
          LET purchased  == Purchased(engine, customer_id)
              interacted == _interacted_products(engine, customer_id)
              seeds      == IF purchased # {} THEN purchased ELSE interacted
              cold       == IF op = "recommend_for_customer"
                            THEN _fallback_top_pagerank(engine, top_n)
                            ELSE [name \in {"global_pagerank"} |->
                                     _top_items(engine._global_pagerank, top_n, {})]
          IN  calls' = [calls EXCEPT ![w] =
                  IF ~_ensure_known_customer(engine, customer_id)
                  THEN Done(op, customer_id, top_n, [outcome |-> "ValueError"])
                  ELSE IF seeds = {}
                  THEN Done(op, customer_id, top_n, [outcome |-> "ok", value |-> cold])
                  ELSE [pc |-> "seeded", op |-> op, customer_id |-> customer_id,
                        top_n |-> top_n, purchased |-> purchased,
                        interacted |-> interacted, seeds |-> seeds]]
    /\ UNCHANGED <<dataset, graph, engine, pc, result, pagerank_run>>

\* lines 55-60 or 85-86, then _personalized_pagerank and _run_pagerank up to
\* the loop: the solver's own ranks and personalization
CallScore(w) ==
    /\ pc = "ready"
    /\ calls[w].pc = "seeded"
    /\ calls' = [calls EXCEPT ![w] =
          [pc |-> "solving",
           co_occurrence |-> _co_occurrence_scores(engine, calls[w].seeds),
           similarity |-> _similarity_scores(engine, calls[w].seeds),
           personalization |->
               _normalize_personalization(engine,
                                          SeedPersonalization(engine, calls[w].seeds)),
           ranks |-> [product_id \in engine._product_ids |->
                         Rat(1, Cardinality(engine._product_ids))],
           iterations |-> 0,
           stopped |-> engine._product_ids = {}] @@ calls[w]]
    /\ UNCHANGED <<dataset, graph, engine, pc, result, pagerank_run>>

\* mutant: the solver keeps its ranks on the engine, so a call iterates on the
\* ranks of whichever call wrote them last (here: the lowest worker solving)
CallIterate_SharedRanks(w) ==
    /\ pc = "ready"
    /\ calls[w].pc = "solving"
    /\ ~calls[w].stopped
    /\ calls[w].iterations < engine.max_iterations
    /\ LET shared    == CHOOSE v \in Workers :
                            /\ calls[v].pc = "solving"
                            /\ \A u \in Workers : calls[u].pc = "solving" => v <= u
           new_ranks == PagerankIteration(engine, calls[shared].ranks,
                                          calls[w].personalization)
       IN  calls' = [calls EXCEPT ![w] =
               [@ EXCEPT !.ranks = new_ranks,
                         !.iterations = @ + 1,
                         !.stopped = RLt(Delta(engine, new_ranks, calls[shared].ranks),
                                         engine.tolerance)]]
    /\ UNCHANGED <<dataset, graph, engine, pc, result, pagerank_run>>

\* lines 155-178: one iteration of the solver loop
CallIterate(w) ==
    /\ pc = "ready"
    /\ calls[w].pc = "solving"
    /\ ~calls[w].stopped
    /\ calls[w].iterations < engine.max_iterations
    /\ LET new_ranks == PagerankIteration(engine, calls[w].ranks,
                                          calls[w].personalization)
       IN  calls' = [calls EXCEPT ![w] =
               [@ EXCEPT !.ranks = new_ranks,
                         !.iterations = @ + 1,
                         !.stopped = RLt(Delta(engine, new_ranks, calls[w].ranks),
                                         engine.tolerance)]]
    /\ UNCHANGED <<dataset, graph, engine, pc, result, pagerank_run>>

\* line 179, then lines 61-68 or 83-89: the solver returns, the call
\* normalizes, fuses or ranks, and has its response
CallFinish(w) ==
    /\ pc = "ready"
    /\ calls[w].pc = "solving"
    /\ calls[w].stopped \/ calls[w].iterations >= engine.max_iterations
    /\ LET c       == calls[w]
           exclude == c.purchased \cup c.interacted
           raw     == [co_occurrence |-> c.co_occurrence,
                       similarity |-> c.similarity,
                       personalized_pagerank |-> c.ranks]
           value   == IF c.op = "recommend_for_customer"
                      THEN Take(_combine_strategies(
                                    [name \in DOMAIN raw |-> _normalize_scores(raw[name])],
                                    exclude),
                                c.top_n)
                      ELSE [name \in DOMAIN raw |-> _top_items(raw[name], c.top_n, exclude)]
       IN  calls' = [calls EXCEPT ![w] =
               Done(c.op, c.customer_id, c.top_n, [outcome |-> "ok", value |-> value])]
    /\ UNCHANGED <<dataset, graph, engine, pc, result, pagerank_run>>

\* mutant: returning a cold-start answer drops its first product from the
\* cached vector (the cached dict is consumed in place)
CallReturn_ConsumesCache(w) ==
    /\ pc = "ready"
    /\ calls[w].pc = "done"
    /\ calls' = [calls EXCEPT ![w] = Idle]
    /\ engine' = [engine EXCEPT !._global_pagerank =
                     LET r == calls[w].response
                     IN  IF /\ r.outcome = "ok"
                            /\ calls[w].op = "recommend_for_customer"
                            /\ r.value # <<>>
                            /\ "global_pagerank" \in DOMAIN r.value[1].contributions
                         THEN [p \in DOMAIN @ \ {r.value[1].product_id} |-> @[p]]
                         ELSE @]
    /\ UNCHANGED <<dataset, graph, pc, result, pagerank_run>>

\* the endpoint hands the response to the client; the worker is free again
CallReturn(w) ==
    /\ pc = "ready"
    /\ calls[w].pc = "done"
    /\ calls' = [calls EXCEPT ![w] = Idle]
    /\ UNCHANGED <<dataset, graph, engine, pc, result, pagerank_run>>

\* the reference dataset, and the datasets over ProductIds with one record
ConcurrentInit ==
    /\ \/ dataset = load_dataset
       \/ \E os \in SeqsUpTo(OrderChoices, 1), es \in SeqsUpTo(EventChoices, 1) :
             /\ Len(os) + Len(es) = 1
             /\ dataset = [customers |-> CustomerIds, products |-> ProductIds,
                           orders |-> os, events |-> es]
    /\ graph = None
    /\ engine = None
    /\ pc = "loaded"
    /\ result = None
    /\ pagerank_run = None
    /\ calls = NoCalls

ConcurrentNext ==
    \/ BuildGraph
    \/ EngineInit
    \/ \E w \in Workers : CallStart(w)
    \/ \E w \in Workers : CallScore(w)
    \/ \E w \in Workers : CallIterate(w)
    \/ \E w \in Workers : CallFinish(w)
    \/ \E w \in Workers : CallReturn(w)

ConcurrentSpec == ConcurrentInit /\ [][ConcurrentNext]_vars

(***************************************************************************)
(* _normalize_scores on its own: called on a score map, it returns.        *)
(***************************************************************************)
\* raw scores a strategy can produce, and a negative one
ScoreValues == {<<-1, 1>>, Zero, <<1, 2>>, One, <<3, 1>>}

NormalizeInit ==
    /\ dataset = None
    /\ graph = None
    /\ engine = None
    /\ pagerank_run = None
    /\ calls = NoCalls
    /\ pc = "called"
    /\ \E keys \in SUBSET ProductIds :
          \E scores \in [keys -> ScoreValues] :
              result = [op |-> "_normalize_scores", scores |-> scores, response |-> None]

NormalizeScores ==
    /\ pc = "called"
    /\ result' = [result EXCEPT !.response =
                     [outcome |-> "ok", value |-> _normalize_scores(result.scores)]]
    /\ pc' = "returned"
    /\ UNCHANGED <<dataset, graph, engine, pagerank_run, calls>>

NormalizeSpec == NormalizeInit /\ [][NormalizeScores]_vars

(***************************************************************************)
(* The co-occurrence and similarity scorers on their own: once the graph   *)
(* is built, a scorer is called on a seed set and returns its score map.   *)
(* Both read nothing of the engine but its graph.                          *)
(***************************************************************************)
ScorerSeedSets == SUBSET ProductIds

Scorers == {"_co_occurrence_scores", "_similarity_scores"}

CallScorer ==
    /\ pc = "built"
    /\ \E scorer \in Scorers, seeds \in ScorerSeedSets :
          LET self == [graph |-> graph]
              scores == IF scorer = "_co_occurrence_scores"
                        THEN _co_occurrence_scores(self, seeds)
                        ELSE _similarity_scores(self, seeds)
          IN  result' = [op |-> scorer, seeds |-> seeds,
                         response |-> [outcome |-> "ok", value |-> scores]]
    /\ pc' = "scored"
    /\ UNCHANGED <<dataset, graph, engine, pagerank_run, calls>>

ScorerNext ==
    \/ BuildGraph
    \/ CallScorer

ScorerSpec == Init /\ [][ScorerNext]_vars

(***************************************************************************)
(* The readiness waits of the ETL script, wait_for_postgres and            *)
(* wait_for_neo4j: a loop of at most max_retries connection attempts.      *)
(* `result` is the call: its arguments, the loop index i, the outcome of   *)
(* every attempt made, the attempts after which time.sleep(delay) returned *)
(* and the way the call ended.                                             *)
(***************************************************************************)
WaitFunctions == {"wait_for_postgres", "wait_for_neo4j"}

\* delays a caller can pass; time.sleep raises ValueError on a negative one
Delays == {-1, 0, 2}

\* what a connection attempt can end with: success, the connection error of
\* the driver, any other exception
ConnectionError(function) ==
    IF function = "wait_for_postgres" THEN "OperationalError" ELSE "ServiceUnavailable"

AttemptOutcomes(function) == {"ok", ConnectionError(function), "Exception"}

\* "except psycopg2.OperationalError" against "except Exception"
Caught(function, error) ==
    IF function = "wait_for_postgres" THEN error = "OperationalError" ELSE TRUE

WaitInit ==
    /\ dataset = None
    /\ graph = None
    /\ engine = None
    /\ pagerank_run = None
    /\ calls = NoCalls
    /\ pc = "for"
    /\ \E function \in WaitFunctions, max_retries \in 0..MaxRetries, delay \in Delays :
          result = [op          |-> function,
                    max_retries |-> max_retries,
                    delay       |-> delay,
                    i           |-> 0,
                    attempts    |-> <<>>,
                    sleeps      |-> <<>>,
                    response    |-> None]

\* for i in range(max_retries): the next pass, or the end of the function
WaitFor ==
    /\ pc = "for"
    /\ IF result.i < result.max_retries
       THEN /\ pc' = "try"
            /\ result' = result
       ELSE /\ pc' = "returned"
            /\ result' = [result EXCEPT !.response = [outcome |-> "ok"]]
    /\ UNCHANGED <<dataset, graph, engine, pagerank_run, calls>>

\* the try block: one connection attempt; success returns, a caught error
\* enters the handler, any other error leaves the function
WaitTry ==
    /\ pc = "try"
    /\ \E outcome \in AttemptOutcomes(result.op) :
          LET made == [result EXCEPT !.attempts = Append(@, outcome)]
          IN  IF outcome = "ok"
              THEN /\ pc' = "returned"
                   /\ result' = [made EXCEPT !.response = [outcome |-> "ok"]]
              ELSE IF Caught(result.op, outcome)
              THEN /\ pc' = "except"
                   /\ result' = made
              ELSE /\ pc' = "raised"
                   /\ result' = [made EXCEPT !.response =
                                    [outcome |-> "raised", error |-> outcome,
                                     attempt |-> Len(made.attempts)]]
    /\ UNCHANGED <<dataset, graph, engine, pagerank_run, calls>>

\* mutant: the handler sleeps after every failed attempt and never raises
WaitSleep_AfterEveryFailure ==
    /\ pc = "except"
    /\ result.delay >= 0
    /\ result' = [result EXCEPT !.sleeps = Append(@, result.i + 1), !.i = @ + 1]
    /\ pc' = "for"
    /\ UNCHANGED <<dataset, graph, engine, pagerank_run, calls>>

\* the handler when i < max_retries - 1: time.sleep(delay), then the next pass
WaitSleep ==
    /\ pc = "except"
    /\ result.i < result.max_retries - 1
    /\ IF result.delay >= 0
       THEN /\ result' = [result EXCEPT !.sleeps = Append(@, result.i + 1),
                                        !.i = @ + 1]
            /\ pc' = "for"
       ELSE /\ result' = [result EXCEPT !.response =
                             [outcome |-> "raised", error |-> "ValueError",
                              attempt |-> 0]]
            /\ pc' = "raised"
    /\ UNCHANGED <<dataset, graph, engine, pagerank_run, calls>>

\* the handler on the last pass: raise
WaitRaise ==
    /\ pc = "except"
    /\ ~(result.i < result.max_retries - 1)
    /\ result' = [result EXCEPT !.response =
                     [outcome |-> "raised", error |-> Last(result.attempts),
                      attempt |-> Len(result.attempts)]]
    /\ pc' = "raised"
    /\ UNCHANGED <<dataset, graph, engine, pagerank_run, calls>>

WaitNext == \/ WaitFor \/ WaitTry \/ WaitSleep \/ WaitRaise

WaitSpec == WaitInit /\ [][WaitNext]_vars

(***************************************************************************)
(* What the dataset says about a customer, read off the records directly.  *)
(***************************************************************************)
\* products appearing in the customer's orders
OrderedProducts(ds, c) ==
    UNION {{ds.orders[k].items[i] : i \in 1..Len(ds.orders[k].items)} :
              k \in {j \in 1..Len(ds.orders) : ds.orders[j].customer_id = c}}

\* products the customer has an event on, of any type
EventProducts(ds, c) ==
    {ds.events[k].product_id :
        k \in {j \in 1..Len(ds.events) : ds.events[j].customer_id = c}}

\* products with positive accumulated event weight for the customer
WeightedEventProducts(ds, c) ==
    {ds.events[k].product_id :
        k \in {j \in 1..Len(ds.events) :
                  /\ ds.events[j].customer_id = c
                  /\ RPos(EventWeight(ds.events[j].event_type))}}

\* p shares an order with another product
SharesOrder(ds, p) ==
    \E k \in 1..Len(ds.orders) : \E i, j \in 1..Len(ds.orders[k].items) :
        ds.orders[k].items[i] = p /\ ds.orders[k].items[j] # p

Served(op) == result # None /\ result.op = op

ServedOk(op) == Served(op) /\ result.response.outcome = "ok"

\* a precedes b in the order "descending score, ties by ascending product id"
Precedes(pa, sa, pb, sb) == RLt(sb, sa) \/ (sa = sb /\ IdOrder[pa] < IdOrder[pb])

\* the seeds of the solver call made by the last request
SolverSeeds ==
    IF pagerank_run = None THEN {}
    ELSE {p \in DOMAIN pagerank_run.personalization :
             RPos(pagerank_run.personalization[p])}

(***************************************************************************)
(* C1: for a nonempty product set, every rank vector of a solver run sums  *)
(* to 1: the initial vector, the vector after each iteration and so the    *)
(* vector returned, whatever personalization (uniform, seed-concentrated,  *)
(* zero-sum) the run was given.                                            *)
(***************************************************************************)
C1_PagerankSumsToOne ==
    /\ pagerank_run # None /\ engine._product_ids # {} =>
          \A i \in 1..Len(pagerank_run.trace) : RSum(pagerank_run.trace[i]) = One
    /\ pc = "ready" /\ engine._product_ids # {} => RSum(engine._global_pagerank) = One

\* a two-iteration run on a zero-sum personalization over a graph with a sink
\* and a product with neighbours
C1_Witness ==
    /\ Served("recommend_for_customer")
    /\ pagerank_run # None
    /\ Len(pagerank_run.trace) = 3
    /\ SolverSeeds # {}
    /\ SolverSeeds \cap engine._product_ids = {}
    /\ \E p, q \in engine._product_ids : IsSink(engine, p) /\ ~IsSink(engine, q)

(***************************************************************************)
(* C2: recommend_for_customer never returns a product that appears in one  *)
(* of the customer's orders or that the customer has an event on.          *)
(***************************************************************************)
C2_NoSeedRecommended ==
    ServedOk("recommend_for_customer") =>
        \A i \in 1..Len(result.response.value) :
            result.response.value[i].product_id \notin
                OrderedProducts(dataset, result.customer_id)
                    \cup EventProducts(dataset, result.customer_id)

C2_Witness ==
    /\ ServedOk("recommend_for_customer")
    /\ result.response.value # <<>>
    /\ OrderedProducts(dataset, result.customer_id) # {}
    /\ EventProducts(dataset, result.customer_id)
          \ OrderedProducts(dataset, result.customer_id) # {}

(***************************************************************************)
(* C3 (as claimed): the seeds of a request are the products of the         *)
(* customer's orders when there are any, and otherwise the products with   *)
(* positive accumulated event weight; a product only viewed is no seed of  *)
(* a customer who purchased.                                               *)
(***************************************************************************)
C3_SeedsArePurchasesElseInteractions ==
    result # None /\ result.customer_id \in dataset.customers =>
        SolverSeeds =
            IF OrderedProducts(dataset, result.customer_id) # {}
            THEN OrderedProducts(dataset, result.customer_id)
            ELSE WeightedEventProducts(dataset, result.customer_id)

(***************************************************************************)
(* C4 (as claimed): on the reference dataset recommend_for_customer("C1")  *)
(* returns P3 with a nonzero similarity or co_occurrence contribution.     *)
(***************************************************************************)
C4_ReferenceRecommendsP3 ==
    /\ dataset = load_dataset
    /\ ServedOk("recommend_for_customer")
    /\ result.customer_id = "C1"
    => \E i \in 1..Len(result.response.value) :
          /\ result.response.value[i].product_id = "P3"
          /\ \E name \in {"similarity", "co_occurrence"} :
                /\ name \in DOMAIN result.response.value[i].contributions
                /\ result.response.value[i].contributions[name] # Zero

(***************************************************************************)
(* C4 (amended): on the reference dataset recommend_for_customer("C1")     *)
(* returns the empty list for every top_n: P3, which C1 viewed and         *)
(* clicked, is excluded like the products C1 ordered.                      *)
(***************************************************************************)
C4_ReferenceExcludesP3 ==
    /\ dataset = load_dataset
    /\ Served("recommend_for_customer")
    /\ result.customer_id = "C1"
    => result.response = [outcome |-> "ok", value |-> <<>>]

C4_Witness ==
    /\ dataset = load_dataset
    /\ ServedOk("recommend_for_customer")
    /\ result.customer_id = "C1"
    /\ result.top_n = MaxTopN
    /\ "P3" \in EventProducts(dataset, "C1") \ OrderedProducts(dataset, "C1")

(***************************************************************************)
(* C5: cold start.  For a known customer with no order and no event,       *)
(* recommend_for_customer returns the top_n products of the cached global  *)
(* PageRank vector, by descending rank and ascending product id, each with *)
(* its global rank as score and as its only contribution, under the key    *)
(* "global_pagerank".                                                      *)
(***************************************************************************)
ColdCustomer(c) ==
    /\ c \in dataset.customers
    /\ OrderedProducts(dataset, c) = {}
    /\ EventProducts(dataset, c) = {}

C5_ColdStartIsGlobalTopN ==
    Served("recommend_for_customer") /\ ColdCustomer(result.customer_id) =>
        LET value  == result.response.value
            global == engine._global_pagerank
            listed == {value[i].product_id : i \in 1..Len(value)}
        IN  /\ result.response.outcome = "ok"
            /\ Len(value) = Min(result.top_n, Cardinality(DOMAIN global))
            /\ Cardinality(listed) = Len(value)
            /\ listed \subseteq DOMAIN global
            /\ \A i \in 1..Len(value) :
                  /\ value[i].score = global[value[i].product_id]
                  /\ value[i].contributions =
                        [name \in {"global_pagerank"} |-> value[i].score]
            /\ \A i, j \in 1..Len(value) :
                  i < j => Precedes(value[i].product_id, value[i].score,
                                    value[j].product_id, value[j].score)
            /\ \A i \in 1..Len(value) : \A p \in DOMAIN global \ listed :
                  Precedes(value[i].product_id, value[i].score, p, global[p])

\* a cold start that leaves a product out and ranks a higher id first
C5_Witness ==
    /\ Served("recommend_for_customer")
    /\ ColdCustomer(result.customer_id)
    /\ Len(result.response.value) = 2
    /\ Cardinality(engine._product_ids) = 3
    /\ IdOrder[result.response.value[1].product_id]
          > IdOrder[result.response.value[2].product_id]

(***************************************************************************)
(* C6: a request of either kind fails with the unknown-customer error      *)
(* exactly when customer_id is no key of dataset.customers, for every      *)
(* top_n; a failing request makes no solver call and leaves the graph and  *)
(* the engine (the cached global PageRank included) unchanged.             *)
(***************************************************************************)
C6_UnknownCustomerFails ==
    [][result = None /\ result' # None =>
          /\ result'.response.outcome = "ValueError"
                <=> result'.customer_id \notin dataset.customers
          /\ result'.response.outcome \in {"ValueError", "ok"}
          /\ result'.response.outcome = "ValueError" =>
                /\ pagerank_run' = None
                /\ graph' = graph
                /\ engine' = engine
                /\ dataset' = dataset]_vars

C6_Witness ==
    /\ Served("strategy_breakdown")
    /\ result.response.outcome = "ValueError"
    /\ result.customer_id = UnknownCustomer
    /\ result.top_n = MaxTopN

(***************************************************************************)
(* C7: after build_graph every nonempty row of product_adjacency sums to   *)
(* 1, each weight being the neighbour's co-occurrence count divided by the *)
(* row's total co-occurrence count.                                        *)
(***************************************************************************)
C7_AdjacencyRowsSumToOne ==
    graph # None =>
        \A p \in DOMAIN graph.product_adjacency :
            LET row == graph.product_adjacency[p]
            IN  row # EmptyDict =>
                    /\ RSum(row) = One
                    /\ DOMAIN row = DOMAIN graph.product_cooccurrence[p]
                    /\ \A n \in DOMAIN row :
                          RMul(row[n], <<ISum(graph.product_cooccurrence[p]), 1>>)
                              = <<graph.product_cooccurrence[p][n], 1>>

\* a row with two neighbours of different weight
C7_Witness ==
    /\ graph # None
    /\ \E p \in DOMAIN graph.product_adjacency :
          \E m, n \in DOMAIN graph.product_adjacency[p] :
              RLt(graph.product_adjacency[p][m], graph.product_adjacency[p][n])

(***************************************************************************)
(* C8: after build_graph co-occurrence is symmetric: a recorded count for  *)
(* (a, b) is recorded for (b, a) with the same value.                      *)
(***************************************************************************)
C8_CooccurrenceSymmetric ==
    graph # None =>
        \A a \in DOMAIN graph.product_cooccurrence :
            \A b \in DOMAIN graph.product_cooccurrence[a] :
                /\ b \in DOMAIN graph.product_cooccurrence
                /\ a \in DOMAIN graph.product_cooccurrence[b]
                /\ graph.product_cooccurrence[b][a] = graph.product_cooccurrence[a][b]

\* a pair counted twice (two orders), listed in both item orders
C8_Witness ==
    /\ graph # None
    /\ Len(dataset.orders) = 2
    /\ dataset.orders[1].items = <<"P1", "P2">>
    /\ dataset.orders[2].items = <<"P2", "P1">>
    /\ graph.product_cooccurrence["P2"]["P1"] = 2

(***************************************************************************)
(* C9 (as claimed): after build_graph every product of dataset.products is *)
(* a key of product_adjacency, and a product that never shares an order    *)
(* with another product has an empty adjacency row.                        *)
(***************************************************************************)
C9_UnsharedProductsAreSinks ==
    graph # None =>
        /\ dataset.products \subseteq DOMAIN graph.product_adjacency
        /\ \A p \in DOMAIN graph.product_adjacency :
              ~SharesOrder(dataset, p) => graph.product_adjacency[p] = EmptyDict

(***************************************************************************)
(* C10: recommend_for_customer returns at most top_n items, and fewer than *)
(* top_n only when fewer than top_n products have a nonzero fused score    *)
(* (on a cold start: when fewer than top_n products exist).                *)
(***************************************************************************)
\* the products outside the exclusion set with a positive normalized score in
\* some strategy, i.e. with a nonzero fused score
ScoredProducts(self, customer_id) ==
    LET seeds == Seeds(self, customer_id)
        strategies == [co_occurrence |->
                           _normalize_scores(_co_occurrence_scores(self, seeds)),
                       similarity |->
                           _normalize_scores(_similarity_scores(self, seeds)),
                       personalized_pagerank |->
                           _normalize_scores(_personalized_pagerank(self, seeds))]
    IN  {p \in UNION {DOMAIN strategies[n] : n \in DOMAIN strategies} :
            /\ p \notin Exclude(self, customer_id)
            /\ \E n \in DOMAIN strategies :
                  p \in DOMAIN strategies[n] /\ RPos(strategies[n][p])}

C10_AtMostTopN ==
    ServedOk("recommend_for_customer") =>
        LET available == IF SolverSeeds = {}
                         THEN Cardinality(engine._product_ids)
                         ELSE Cardinality(ScoredProducts(engine, result.customer_id))
        IN  Len(result.response.value) = Min(result.top_n, available)

\* a fused ranking cut to top_n, and one that falls short of top_n
C10_Witness ==
    /\ ServedOk("recommend_for_customer")
    /\ SolverSeeds # {}
    /\ result.top_n = 1
    /\ Len(result.response.value) = 1
    /\ Cardinality(ScoredProducts(engine, result.customer_id)) = 2

(***************************************************************************)
(* C11: every list a request returns (the fused list and the cold-start    *)
(* list of recommend_for_customer, each list of strategy_breakdown) is in  *)
(* descending order of score, and adjacent items of equal score are in     *)
(* ascending order of product id.                                          *)
(***************************************************************************)
\* the lists of the last response, as sequences of <<product_id, score>>
ResponseLists ==
    IF result = None \/ result.response.outcome # "ok" THEN {}
    ELSE IF result.op = "recommend_for_customer"
    THEN {[i \in 1..Len(result.response.value) |->
              <<result.response.value[i].product_id, result.response.value[i].score>>]}
    ELSE {result.response.value[name] : name \in DOMAIN result.response.value}

Ordered(list) ==
    \A i \in 1..(Len(list) - 1) :
        /\ ~RLt(list[i][2], list[i + 1][2])
        /\ list[i][2] = list[i + 1][2] => IdOrder[list[i][1]] < IdOrder[list[i + 1][1]]

C11_ListsOrdered == \A list \in ResponseLists : Ordered(list)

\* a fused list of two products with the same score
C11_Witness ==
    /\ ServedOk("recommend_for_customer")
    /\ SolverSeeds # {}
    /\ Len(result.response.value) = 2
    /\ result.response.value[1].score = result.response.value[2].score

(***************************************************************************)
(* C12: determinism.  Two calls of the same operation with the same        *)
(* customer_id and top_n on the same engine have identical responses (same *)
(* products, order, scores and contributions), whatever calls were started *)
(* and finished on the engine between them.                                *)
(***************************************************************************)
SameCall(a, b) ==
    a.op = b.op /\ a.customer_id = b.customer_id /\ a.top_n = b.top_n

C12_SameCallSameResponse ==
    \A v, w \in Workers :
        calls[v].pc = "done" /\ calls[w].pc = "done" /\ SameCall(calls[v], calls[w])
            => calls[v].response = calls[w].response

\* two finished calls with the same inputs and a fused list of two products
C12_Witness ==
    /\ calls[1].pc = "done"
    /\ calls[2].pc = "done"
    /\ SameCall(calls[1], calls[2])
    /\ calls[1].op = "recommend_for_customer"
    /\ calls[1].response.outcome = "ok"
    /\ Len(calls[1].response.value) = 2
    /\ "personalized_pagerank" \in DOMAIN calls[1].response.value[1].contributions

(***************************************************************************)
(* C13: fusion.  In a fused response every item is a product outside the   *)
(* exclusion set; it has a contribution for exactly the strategies whose   *)
(* normalized score for it is strictly positive, equal to that score times *)
(* the strategy's weight (0.4 co_occurrence, 0.3 similarity, 0.3           *)
(* personalized_pagerank); its score is the sum of its contributions; a    *)
(* product with no positive normalized score is not listed, and one with a *)
(* positive score is left out only by the truncation to top_n.             *)
(***************************************************************************)
\* the normalized score maps of the request just served
NormalizedStrategies ==
    [co_occurrence |-> _normalize_scores(_co_occurrence_scores(engine, SolverSeeds)),
     similarity |-> _normalize_scores(_similarity_scores(engine, SolverSeeds)),
     personalized_pagerank |->
         _normalize_scores(_personalized_pagerank(engine, SolverSeeds))]

\* every product the customer of the request ordered or has an event on
Touched == OrderedProducts(dataset, result.customer_id)
               \cup EventProducts(dataset, result.customer_id)

ExpectedContributions(p) ==
    LET weight == [co_occurrence |-> <<4, 10>>, similarity |-> <<3, 10>>,
                   personalized_pagerank |-> <<3, 10>>]
        norm == NormalizedStrategies
    IN  [name \in {n \in DOMAIN norm : p \in DOMAIN norm[n] /\ RPos(norm[n][p])} |->
            RDiv(RMul(norm[name][p], <<weight[name][1], 1>>), <<weight[name][2], 1>>)]

C13_FusionIsWeightedSum ==
    ServedOk("recommend_for_customer") /\ SolverSeeds # {} =>
        LET value  == result.response.value
            listed == {value[i].product_id : i \in 1..Len(value)}
            all    == UNION {DOMAIN NormalizedStrategies[n] :
                                n \in DOMAIN NormalizedStrategies}
        IN  /\ \A i \in 1..Len(value) :
                  /\ value[i].product_id \notin Touched
                  /\ value[i].contributions = ExpectedContributions(value[i].product_id)
                  /\ DOMAIN value[i].contributions # {}
                  /\ value[i].score = RSum(value[i].contributions)
            /\ \A p \in all \ Touched :
                  DOMAIN ExpectedContributions(p) # {} /\ p \notin listed
                      => Len(value) = result.top_n

\* two items, one scored by all three strategies and one by fewer
C13_Witness ==
    /\ ServedOk("recommend_for_customer")
    /\ SolverSeeds # {}
    /\ Len(result.response.value) = 2
    /\ DOMAIN result.response.value[1].contributions
          = {"co_occurrence", "similarity", "personalized_pagerank"}
    /\ DOMAIN result.response.value[2].contributions
          # DOMAIN result.response.value[1].contributions
    /\ RLt(result.response.value[2].score, result.response.value[1].score)

(***************************************************************************)
(* C14: _normalize_scores returns a map with the keys of its argument: the *)
(* empty map for the empty map, all zeros for all zeros, and for any other *)
(* map of non-negative scores each value divided by the map's maximum, so  *)
(* every value lies in [0, 1] and the maximum is exactly 1.  It returns    *)
(* for every argument.                                                     *)
(***************************************************************************)
C14_NormalizedByMaximum ==
    pc = "returned" /\ result.op = "_normalize_scores" =>
        LET scores == result.scores
            out    == result.response.value
        IN  /\ result.response.outcome = "ok"
            /\ DOMAIN out = DOMAIN scores
            /\ DOMAIN scores = {} => out = EmptyDict
            /\ (\A k \in DOMAIN scores : scores[k] = Zero) =>
                  \A k \in DOMAIN scores : out[k] = Zero
            /\ /\ \A k \in DOMAIN scores : ~RLt(scores[k], Zero)
               /\ \E k \in DOMAIN scores : RPos(scores[k])
               => \E m \in DOMAIN scores :
                     /\ \A k \in DOMAIN scores : ~RLt(scores[m], scores[k])
                     /\ out[m] = One
                     /\ \A k \in DOMAIN scores :
                           /\ RMul(out[k], scores[m]) = scores[k]
                           /\ ~RLt(out[k], Zero)
                           /\ ~RLt(One, out[k])

\* a map with a zero and two different positive scores, none of them 1
C14_Witness ==
    /\ pc = "returned"
    /\ result.op = "_normalize_scores"
    /\ result.scores = [p \in ProductIds |->
                           CASE p = "P1" -> Zero [] p = "P2" -> <<3, 1>>
                             [] OTHER -> <<1, 2>>]
    /\ result.response.value["P3"] = <<1, 6>>

(***************************************************************************)
(* C15 (as claimed): for a nonempty seed set, no seed is a key of the map  *)
(* returned by _co_occurrence_scores, by _similarity_scores or by          *)
(* _personalized_pagerank.                                                 *)
(***************************************************************************)
C15_ScorersReturnCandidatesOnly ==
    result # None /\ SolverSeeds # {} =>
        /\ DOMAIN _co_occurrence_scores(engine, SolverSeeds) \cap SolverSeeds = {}
        /\ DOMAIN _similarity_scores(engine, SolverSeeds) \cap SolverSeeds = {}
        /\ DOMAIN _personalized_pagerank(engine, SolverSeeds) \cap SolverSeeds = {}

(***************************************************************************)
(* C16 (as claimed): an event of a type other than view, click and         *)
(* add_to_cart is no signal.  Compared with the same dataset without its   *)
(* last event, when that event is of such a type: the event adds 0 to its  *)
(* event weight, no customer's seed set differs, and the response of the   *)
(* request served is the same.                                             *)
(***************************************************************************)
\* the engine main.py would build on a dataset
EngineOn(ds, max_iterations) == RecommendationEngine(build_graph(ds), max_iterations)

\* the dataset without its last event
WithoutLastEvent(ds) == [ds EXCEPT !.events = SubSeq(@, 1, Len(@) - 1)]

\* what the request recorded in `result` returns on another engine
ResponseOn(self) ==
    IF result.op = "recommend_for_customer"
    THEN recommend_for_customer(self, result.customer_id, result.top_n)
    ELSE strategy_breakdown(self, result.customer_id, result.top_n)

C16_UnknownEventTypeIsNoSignal ==
    /\ result # None
    /\ dataset.events # <<>>
    /\ Last(dataset.events).event_type \notin {"view", "click", "add_to_cart"}
    => LET event == Last(dataset.events)
           key   == <<event.customer_id, event.product_id>>
           base  == EngineOn(WithoutLastEvent(dataset), engine.max_iterations)
       IN  /\ graph.event_weights[key] = Get(base.graph.event_weights, key, Zero)
           /\ \A c \in dataset.customers : Seeds(engine, c) = Seeds(base, c)
           /\ result.response = ResponseOn(base)

(***************************************************************************)
(* C17: strategy_breakdown decides cold start as recommend_for_customer    *)
(* does.  For a customer with no order and no event it returns the single  *)
(* key "global_pagerank" with the top_n of the global PageRank vector.     *)
(* Otherwise it returns exactly the keys co_occurrence, similarity and     *)
(* personalized_pagerank, each with the top_n of that strategy's raw       *)
(* scores among the products the customer neither ordered nor has an event *)
(* on, in descending score and ascending product id.                       *)
(***************************************************************************)
\* list is the first n entries of scores restricted to eligible, in ranking order
IsTopN(list, scores, eligible, n) ==
    LET listed == {list[i][1] : i \in 1..Len(list)}
    IN  /\ Len(list) = Min(n, Cardinality(eligible))
        /\ Cardinality(listed) = Len(list)
        /\ listed \subseteq eligible
        /\ \A i \in 1..Len(list) : list[i] = <<list[i][1], scores[list[i][1]]>>
        /\ Ordered(list)
        /\ \A i \in 1..Len(list) : \A p \in eligible \ listed :
              Precedes(list[i][1], list[i][2], p, scores[p])

\* the raw score maps of the request just served
RawStrategies ==
    [co_occurrence |-> _co_occurrence_scores(engine, SolverSeeds),
     similarity |-> _similarity_scores(engine, SolverSeeds),
     personalized_pagerank |-> _personalized_pagerank(engine, SolverSeeds)]

C17_BreakdownIsRawTopN ==
    Served("strategy_breakdown") /\ result.customer_id \in dataset.customers =>
        LET value == result.response.value
        IN  /\ result.response.outcome = "ok"
            /\ IF ColdCustomer(result.customer_id)
               THEN /\ DOMAIN value = {"global_pagerank"}
                    /\ IsTopN(value["global_pagerank"], engine._global_pagerank,
                              DOMAIN engine._global_pagerank, result.top_n)
               ELSE /\ DOMAIN value
                          = {"co_occurrence", "similarity", "personalized_pagerank"}
                    /\ \A name \in DOMAIN value :
                          IsTopN(value[name], RawStrategies[name],
                                 DOMAIN RawStrategies[name] \ Touched, result.top_n)

\* three nonempty lists, the PageRank one cut at top_n, the top similarity
\* score below 1
C17_Witness ==
    /\ ServedOk("strategy_breakdown")
    /\ ~ColdCustomer(result.customer_id)
    /\ result.top_n = 1
    /\ \A name \in DOMAIN result.response.value : Len(result.response.value[name]) = 1
    /\ Cardinality(DOMAIN RawStrategies["personalized_pagerank"] \ Touched) = 2
    /\ RLt(result.response.value["similarity"][1][2], One)

(***************************************************************************)
(* C18: once the engine is constructed, no request (successful, cold-start *)
(* or failing) changes the dataset, any field of the graph, the engine's   *)
(* product list or the cached global PageRank vector.  The cached vector   *)
(* is the result of the solver call made at construction, on the uniform   *)
(* personalization, and the engine is assigned in that step only.          *)
(***************************************************************************)
C18_RequestsLeaveEngineUnchanged ==
    /\ [](pc = "ready" =>
             /\ engine.graph = graph
             /\ graph.dataset = dataset
             /\ engine._product_ids = DOMAIN graph.product_adjacency)
    /\ [][/\ pc = "ready" =>
                /\ pc' = "ready"
                /\ dataset' = dataset
                /\ graph' = graph
                /\ engine' = engine
          /\ engine' # engine =>
                /\ pc = "built"
                /\ pagerank_run'.personalization = _uniform_personalization(engine')
                /\ engine'._global_pagerank =
                      IF engine'._product_ids = {} THEN EmptyDict
                      ELSE Last(pagerank_run'.trace)]_vars

\* a request whose own solver call ended on another vector than the cached one
C18_Witness ==
    /\ result # None
    /\ result.response.outcome = "ok"
    /\ SolverSeeds # {}
    /\ engine._product_ids # {}
    /\ Last(pagerank_run.trace) # engine._global_pagerank
    /\ engine._global_pagerank = _run_pagerank(engine, _uniform_personalization(engine))

(***************************************************************************)
(* C19: calls running side by side do not interfere.  In every interleaving *)
(* of the steps of the calls in flight, each call works on the seed set    *)
(* and the rank vector it would have at the same point when run alone, and *)
(* its response is the one the operation returns when run alone.           *)
(***************************************************************************)
\* what the operation returns when nothing else runs
Alone(op, customer_id, top_n) ==
    IF op = "recommend_for_customer"
    THEN recommend_for_customer(engine, customer_id, top_n)
    ELSE strategy_breakdown(engine, customer_id, top_n)

C19_ConcurrentCallsMatchSequential ==
    \A w \in Workers :
        LET c == calls[w]
        IN  /\ c.pc \in {"seeded", "solving"} =>
                  c.seeds = Seeds(engine, c.customer_id)
            /\ c.pc = "solving" /\ engine._product_ids # {} =>
                  c.ranks = PagerankTrace(engine, SeedPersonalization(engine, c.seeds))
                                [c.iterations + 1]
            /\ c.pc = "done" => c.response = Alone(c.op, c.customer_id, c.top_n)

\* two calls inside the solver loop at once, on different seeds, while the
\* other has already iterated
C19_Witness ==
    /\ calls[1].pc = "solving"
    /\ calls[2].pc = "solving"
    /\ calls[1].seeds # calls[2].seeds
    /\ calls[1].iterations = 1
    /\ calls[2].iterations = 1
    /\ calls[1].ranks # calls[2].ranks
    /\ ~calls[1].stopped
    /\ ~calls[2].stopped

(***************************************************************************)
(* C20: a solver run on a nonempty product set starts from the uniform     *)
(* vector and performs at most max_iterations iterations; no iteration     *)
(* before the last one performed has an L1 difference below the            *)
(* tolerance, and a run that performs fewer than max_iterations iterations *)
(* ends on an iteration whose L1 difference is below the tolerance.  The   *)
(* vector returned is the one of the last iteration performed: the initial *)
(* vector when max_iterations is 0.                                        *)
(***************************************************************************)
\* sum of |a[p] - b[p]| over the products
L1Difference(a, b) == RSumOver([p \in DOMAIN a |-> RAbs(RSub(a[p], b[p]))], DOMAIN a)

C20_SolverStops ==
    pagerank_run # None /\ engine._product_ids # {} =>
        LET trace     == pagerank_run.trace
            performed == Len(trace) - 1
            Below(i)  == RLt(L1Difference(trace[i + 1], trace[i]), <<1, 1000000>>)
        IN  /\ performed >= 0
            /\ performed <= engine.max_iterations
            /\ trace[1] = [p \in engine._product_ids |->
                              Rat(1, Cardinality(engine._product_ids))]
            /\ \A i \in 1..(performed - 1) : ~Below(i)
            /\ performed < engine.max_iterations => performed >= 1 /\ Below(performed)
            /\ result = None => engine._global_pagerank = trace[performed + 1]
            /\ ServedOk("strategy_breakdown") =>
                  IsTopN(result.response.value["personalized_pagerank"],
                         trace[performed + 1],
                         DOMAIN trace[performed + 1] \ Touched, result.top_n)

\* a run of a request that stopped on the tolerance before max_iterations
C20_Witness ==
    /\ ServedOk("strategy_breakdown")
    /\ pagerank_run # None
    /\ engine.max_iterations = MaxIterations
    /\ Len(pagerank_run.trace) = 2
    /\ Len(result.response.value["personalized_pagerank"]) > 0

(***************************************************************************)
(* C21: the personalization a solver run works with is a distribution over *)
(* the engine's products: the given vector divided by its sum over the     *)
(* products, or the uniform 1/N when that sum is 0.  The vector given by a *)
(* request has mass 1/|seeds| on each seed and 0 on every other product.   *)
(***************************************************************************)
C21_PersonalizationIsDistribution ==
    pagerank_run # None /\ engine._product_ids # {} =>
        LET given == pagerank_run.personalization
            ids   == engine._product_ids
            used  == _normalize_personalization(engine, given)
            total == RSumOver([p \in ids |-> IF p \in DOMAIN given THEN given[p] ELSE Zero],
                              ids)
        IN  /\ DOMAIN used = ids
            /\ RSum(used) = One
            /\ \A p \in ids : ~RLt(used[p], Zero)
            /\ total = Zero => \A p \in ids : used[p] = Rat(1, Cardinality(ids))
            /\ total # Zero => \A p \in ids : RMul(used[p], total) = given[p]
            /\ Len(pagerank_run.trace) >= 2 =>
                  pagerank_run.trace[2] =
                      PagerankIteration(engine, pagerank_run.trace[1], used)
            /\ result # None =>
                  /\ DOMAIN given = ids \cup Touched
                  /\ \A p \in DOMAIN given :
                        given[p] = IF p \in Touched
                                   THEN Rat(1, Cardinality(Touched)) ELSE Zero

\* a request with one seed among the engine's products and one outside them
C21_Witness ==
    /\ result # None
    /\ pagerank_run # None
    /\ Cardinality(SolverSeeds) = 2
    /\ Cardinality(SolverSeeds \cap engine._product_ids) = 1
    /\ Cardinality(engine._product_ids) = 2
    /\ Len(pagerank_run.trace) = 3

(***************************************************************************)
(* C22 (as claimed): for a dataset with zero products the cached global    *)
(* PageRank is empty, every scorer returns an empty map for every seed     *)
(* set, recommend_for_customer returns an empty list for a known customer  *)
(* and strategy_breakdown returns only empty rankings.                     *)
(***************************************************************************)
\* nonempty seed sets the scorers can be called on
SeedSets == SUBSET ProductIds \ {{}}

EmptyResults ==
    /\ pc = "ready" =>
          /\ engine._global_pagerank = EmptyDict
          /\ \A seeds \in SeedSets :
                /\ _co_occurrence_scores(engine, seeds) = EmptyDict
                /\ _similarity_scores(engine, seeds) = EmptyDict
                /\ _personalized_pagerank(engine, seeds) = EmptyDict
    /\ result # None /\ result.customer_id \in dataset.customers =>
          /\ result.response.outcome = "ok"
          /\ result.op = "recommend_for_customer" => result.response.value = <<>>
          /\ result.op = "strategy_breakdown" =>
                \A name \in DOMAIN result.response.value :
                    result.response.value[name] = <<>>

C22_ZeroProductsGiveEmptyResults == dataset.products = {} => EmptyResults

(***************************************************************************)
(* C22 (amended): for a dataset with zero products and no order or event   *)
(* (nothing names a product), the cached global PageRank is empty, every   *)
(* scorer returns an empty map for every seed set, recommend_for_customer  *)
(* returns an empty list for a known customer and strategy_breakdown       *)
(* returns only empty rankings; no request of a known customer fails.      *)
(***************************************************************************)
C22_EmptyGraphGivesEmptyResults ==
    dataset.products = {} /\ dataset.orders = <<>> /\ dataset.events = <<>>
        => EmptyResults

C22_Witness ==
    /\ dataset.products = {}
    /\ dataset.orders = <<>>
    /\ dataset.events = <<>>
    /\ ServedOk("strategy_breakdown")
    /\ result.top_n = MaxTopN
    /\ result.response.value = [name \in {"global_pagerank"} |-> <<>>]

(***************************************************************************)
(* C23 (as claimed): after build_graph the co-occurrence count of two      *)
(* distinct products is the number of orders whose item list names both    *)
(* (one per order, in both directions, added up over the orders), a pair   *)
(* with no common order has no count, and no product has a count with      *)
(* itself, also when an item list names a product more than once.          *)
(***************************************************************************)
\* the products named in an item list
ItemSet(items) == {items[i] : i \in 1..Len(items)}

\* the number of orders naming both a and b
OrdersWithBoth(ds, a, b) ==
    Cardinality({k \in 1..Len(ds.orders) : {a, b} \subseteq ItemSet(ds.orders[k].items)})

C23_OneCountPerOrderAndPair ==
    graph # None =>
        /\ \A a \in DOMAIN graph.product_cooccurrence :
              a \notin DOMAIN graph.product_cooccurrence[a]
        /\ \A a, b \in RefProductIds :
              a # b =>
                  Get(Get(graph.product_cooccurrence, a, EmptyDict), b, 0)
                      = OrdersWithBoth(dataset, a, b)

(***************************************************************************)
(* C24: for every seed set, _co_occurrence_scores gives each product c     *)
(* outside the seeds the sum over the seeds s of product_cooccurrence[s][c] *)
(* (added up, not averaged); a product with no co-occurrence with any seed, *)
(* and every seed, is absent from the map.                                 *)
(***************************************************************************)
Scored(scorer) == pc = "scored" /\ result.op = scorer

\* the count recorded for (a, b), 0 when there is none
CooccurrenceCount(a, b) == Get(Get(graph.product_cooccurrence, a, EmptyDict), b, 0)

C24_CoOccurrenceScoreIsSum ==
    Scored("_co_occurrence_scores") =>
        LET scores == result.response.value
            Sum(c) == ISumOver([s \in result.seeds |-> CooccurrenceCount(s, c)],
                               result.seeds)
        IN  /\ DOMAIN scores \subseteq RefProductIds
            /\ \A c \in RefProductIds :
                  IF c \notin result.seeds /\ Sum(c) > 0
                  THEN c \in DOMAIN scores /\ scores[c] = <<Sum(c), 1>>
                  ELSE c \notin DOMAIN scores

\* a candidate that co-occurs with two seeds
C24_Witness ==
    /\ Scored("_co_occurrence_scores")
    /\ Cardinality(result.seeds) = 2
    /\ \E c \in DOMAIN result.response.value :
          /\ result.response.value[c] = <<2, 1>>
          /\ \A s \in result.seeds : CooccurrenceCount(s, c) = 1

(***************************************************************************)
(* C25: for every seed set, _similarity_scores gives each product c        *)
(* outside the seeds the sum, over the seeds s that share a customer with  *)
(* c, of |customers(s) n customers(c)| / |customers(s) u customers(c)|;    *)
(* c is a key exactly when some seed shares a customer with it, so no key  *)
(* has score 0.                                                            *)
(***************************************************************************)
\* the customers with an order or event on p
CustomersOf(p) == Get(graph.product_customers, p, {})

C25_SimilarityIsJaccardSum ==
    Scored("_similarity_scores") =>
        LET scores    == result.response.value
            Sharing(c) == {s \in result.seeds : CustomersOf(s) \cap CustomersOf(c) # {}}
            Jaccard(s, c) == Rat(Cardinality(CustomersOf(s) \cap CustomersOf(c)),
                                 Cardinality(CustomersOf(s) \cup CustomersOf(c)))
        IN  /\ DOMAIN scores \subseteq RefProductIds
            /\ \A c \in RefProductIds :
                  IF c \notin result.seeds /\ Sharing(c) # {}
                  THEN /\ c \in DOMAIN scores
                       /\ scores[c] = RSumOver([s \in Sharing(c) |-> Jaccard(s, c)],
                                               Sharing(c))
                       /\ RPos(scores[c])
                  ELSE c \notin DOMAIN scores

\* a candidate scored by two seeds, with one of which it shares only a part
\* of the customers
C25_Witness ==
    /\ Scored("_similarity_scores")
    /\ Cardinality(result.seeds) = 2
    /\ \E c \in DOMAIN result.response.value :
          /\ \A s \in result.seeds : CustomersOf(s) \cap CustomersOf(c) # {}
          /\ \E s \in result.seeds : CustomersOf(s) # CustomersOf(c)

(***************************************************************************)
(* C26: after build_graph, event_weights[(c, p)] is the sum of the type    *)
(* weights (view 0.5, click 1.0, add_to_cart 2.0, any other type 0) of all *)
(* events of customer c on product p, and there is an entry exactly for    *)
(* the pairs with an event.  Incidence is recorded in both directions for  *)
(* orders and for events of any type: p is in customer_products[c] iff c   *)
(* is in product_customers[p] iff c has an order naming p or an event on   *)
(* p.                                                                      *)
(***************************************************************************)
TypeWeight(t) ==
    CASE t = "view" -> <<1, 2>> [] t = "click" -> <<1, 1>>
      [] t = "add_to_cart" -> <<2, 1>> [] OTHER -> <<0, 1>>

\* the summed type weight of the events of c on p
RECURSIVE EventWeightSum(_, _, _)
EventWeightSum(events, c, p) ==
    IF events = <<>> THEN Zero
    ELSE RAdd(IF Head(events).customer_id = c /\ Head(events).product_id = p
              THEN TypeWeight(Head(events).event_type) ELSE Zero,
              EventWeightSum(Tail(events), c, p))

C26_EventWeightsAccumulate ==
    graph # None =>
        /\ DOMAIN graph.event_weights =
              {<<dataset.events[k].customer_id, dataset.events[k].product_id>> :
                  k \in 1..Len(dataset.events)}
        /\ \A key \in DOMAIN graph.event_weights :
              graph.event_weights[key] = EventWeightSum(dataset.events, key[1], key[2])
        /\ \A c \in dataset.customers \cup DOMAIN graph.customer_products :
              \A p \in RefProductIds :
                  LET named == p \in OrderedProducts(dataset, c)
                                       \cup EventProducts(dataset, c)
                  IN  /\ p \in Get(graph.customer_products, c, {}) <=> named
                      /\ c \in Get(graph.product_customers, p, {}) <=> named
        /\ DOMAIN graph.product_customers \subseteq RefProductIds

\* two weighted events of one customer on one product, and a product the
\* customer only has an event on
C26_Witness ==
    /\ graph # None
    /\ Len(dataset.events) = 2
    /\ dataset.events[1] = dataset.events[2]
    /\ dataset.events[1].event_type = "view"
    /\ graph.event_weights[<<dataset.events[1].customer_id,
                             dataset.events[1].product_id>>] = One
    /\ dataset.events[1].product_id
          \in graph.customer_products[dataset.events[1].customer_id]

(***************************************************************************)
(* C27: in a request with seeds (damping 0.85), every rank of every        *)
(* iteration of the solver run is strictly positive.  So every product of  *)
(* product_adjacency that the customer neither ordered nor has an event on *)
(* is in the fused ranking with a strictly positive personalized_pagerank  *)
(* contribution, unless the list is full, and recommend_for_customer       *)
(* returns at least min(top_n, number of such products) items.             *)
(***************************************************************************)
C27_RanksPositive ==
    result # None /\ SolverSeeds # {} =>
        LET value    == result.response.value
            eligible == engine._product_ids \ Touched
        IN  /\ \A i \in 1..Len(pagerank_run.trace) :
                  \A p \in engine._product_ids : RPos(pagerank_run.trace[i][p])
            /\ result.op = "recommend_for_customer" =>
                  LET listed == {value[i].product_id : i \in 1..Len(value)}
                  IN  /\ Len(value) >= Min(result.top_n, Cardinality(eligible))
                      /\ \A i \in 1..Len(value) :
                            value[i].product_id \in eligible =>
                                /\ "personalized_pagerank"
                                      \in DOMAIN value[i].contributions
                                /\ RPos(value[i].contributions["personalized_pagerank"])
                      /\ eligible \subseteq listed \/ Len(value) = result.top_n

\* after two iterations, a listed sink that has no seed mass and no neighbour
C27_Witness ==
    /\ ServedOk("recommend_for_customer")
    /\ SolverSeeds # {}
    /\ Len(pagerank_run.trace) = 3
    /\ \E i \in 1..Len(result.response.value) :
          LET p == result.response.value[i].product_id
          IN  /\ IsSink(engine, p)
              /\ DOMAIN result.response.value[i].contributions
                    = {"personalized_pagerank"}
              /\ RLt(result.response.value[i].score, <<3, 10>>)

(***************************************************************************)
(* C28: for every known customer c the products with positive accumulated  *)
(* event weight are in customer_products[c].  Hence the seed set is        *)
(* customer_products[c], the interacted products never supply the seeds,   *)
(* the exclusion set is the seed set, and a request takes the cold-start   *)
(* path exactly when c has no order item and no event of any type.         *)
(***************************************************************************)
C28_SeedsAreCustomerProducts ==
    /\ pc = "ready" =>
          \A c \in dataset.customers :
              LET customer_products == Get(graph.customer_products, c, {})
              IN  /\ WeightedEventProducts(dataset, c) \subseteq customer_products
                  /\ _interacted_products(engine, c) \subseteq customer_products
                  /\ customer_products = {} => _interacted_products(engine, c) = {}
                  /\ Seeds(engine, c) = customer_products
                  /\ Exclude(engine, c) = customer_products
                  /\ customer_products = {} <=> ColdCustomer(c)
    /\ result # None /\ result.customer_id \in dataset.customers =>
          /\ SolverSeeds = Get(graph.customer_products, result.customer_id, {})
          /\ pagerank_run = None <=> ColdCustomer(result.customer_id)
          /\ result.op = "strategy_breakdown" =>
                ("global_pagerank" \in DOMAIN result.response.value
                    <=> ColdCustomer(result.customer_id))

\* a customer with no order whose seeds are the products of two events, one
\* of them of weight 0
C28_Witness ==
    /\ ServedOk("strategy_breakdown")
    /\ OrderedProducts(dataset, result.customer_id) = {}
    /\ Cardinality(SolverSeeds) = 2
    /\ Cardinality(_interacted_products(engine, result.customer_id)) = 1
    /\ SolverSeeds = graph.customer_products[result.customer_id]

(***************************************************************************)
(* C29: every neighbour named in a row of product_adjacency is itself a    *)
(* key of product_adjacency, also when orders name products absent from    *)
(* dataset.products.  So the engine's _product_ids, the keys of every rank *)
(* vector, contain every neighbour the propagation step adds to, and no    *)
(* solver run addresses a product missing from the rank vector.            *)
(***************************************************************************)
C29_AdjacencyNeighboursAreKeys ==
    /\ pc # "loaded" =>
          /\ dataset.products \subseteq DOMAIN graph.product_adjacency
          /\ \A p \in DOMAIN graph.product_adjacency :
                DOMAIN graph.product_adjacency[p] \subseteq DOMAIN graph.product_adjacency
    /\ engine # None =>
          /\ DOMAIN engine._global_pagerank = engine._product_ids
          /\ \A p \in engine._product_ids :
                DOMAIN Get(engine.graph.product_adjacency, p, EmptyDict)
                    \subseteq engine._product_ids
    /\ pagerank_run # None =>
          \A i \in 1..Len(pagerank_run.trace) :
              /\ DOMAIN pagerank_run.trace[i] = engine._product_ids
              /\ \A p \in engine._product_ids :
                    DOMAIN Get(engine.graph.product_adjacency, p, EmptyDict)
                        \subseteq DOMAIN pagerank_run.trace[i]

\* a served request on a graph where an order pairs a product of
\* dataset.products with one that is absent from it
C29_Witness ==
    /\ result # None
    /\ pagerank_run # None
    /\ Len(pagerank_run.trace) >= 2
    /\ \E p \in dataset.products :
          \E n \in DOMAIN graph.product_adjacency[p] :
              /\ n \notin dataset.products
              /\ n \in DOMAIN Last(pagerank_run.trace)

(***************************************************************************)
(* C30: a readiness wait makes at most max_retries connection attempts; a  *)
(* successful attempt is the last one made and the function has returned   *)
(* on it; time.sleep(delay) has run only after failed attempts that were   *)
(* not the max_retries-th, at most once each; when max_retries attempts    *)
(* were made and all failed, the function has raised the error of the last *)
(* attempt; and with max_retries >= 1 the function returns normally only   *)
(* after a successful attempt.                                             *)
(***************************************************************************)
C30_ReadinessWait ==
    LET attempts == result.attempts
        sleeps   == result.sleeps
        n        == Len(attempts)
    IN  /\ n <= result.max_retries
        /\ \A k \in 1..n :
              attempts[k] = "ok" => k = n /\ pc = "returned"
        /\ \A j \in 1..Len(sleeps) :
              /\ sleeps[j] \in 1..n
              /\ attempts[sleeps[j]] # "ok"
              /\ sleeps[j] < result.max_retries
              /\ j > 1 => sleeps[j - 1] < sleeps[j]
        /\ (/\ n = result.max_retries
            /\ n >= 1
            /\ \A k \in 1..n : attempts[k] # "ok"
            /\ pc \notin {"try", "except"})
              => /\ pc = "raised"
                 /\ result.response.outcome = "raised"
                 /\ result.response.attempt = n
                 /\ result.response.error = attempts[n]
        /\ (pc = "returned" /\ result.max_retries >= 1)
              => n >= 1 /\ attempts[n] = "ok"

\* every one of two or more attempts failed with a caught error: the wait
\* slept after each but the last and raised the last error
C30_Witness ==
    /\ pc = "raised"
    /\ result.max_retries >= 2
    /\ Len(result.attempts) = result.max_retries
    /\ Len(result.sleeps) = result.max_retries - 1
    /\ \A k \in 1..Len(result.attempts) : Caught(result.op, result.attempts[k])
    /\ result.response.attempt = result.max_retries

====
